---- MODULE Spec2Model ----
(***************************************************************************)
(* Secret-key parameter subsystem and one-pass-signature codec of rpgp.    *)
(*                                                                         *)
(*   src/src/types/params/plain_secret.rs   PlainSecretParams(Ref)         *)
(*   src/src/packet/one_pass_signature.rs   OnePassSignature               *)
(*                                                                         *)
(* Every operation is a synchronous pure function of its arguments, so the *)
(* state machine is a caller: from "idle" it calls one operation on inputs *)
(* drawn from bounded sets, the operation's outcome is recorded, and the   *)
(* caller returns to "idle".  encrypt is modelled statement by statement.  *)
(***************************************************************************)
EXTENDS Integers, Sequences, FiniteSets, TLC

VARIABLES
    pc,      \* position of the caller / of the running operation
    op,      \* the operation called last
    params,  \* the secret-parameter variant the operation works on
    origin,  \* where buf comes from: "raw", "framed", "input" or "none"
    buf,     \* the byte buffer written by a serializer or handed to a parser
    cut,     \* number of bytes a transport removed from the end of buf
    alg,     \* the public-key algorithm tag handed to the parser
    pub,     \* the public parameters handed to as_repr
    enc,     \* the locals of PlainSecretParams::encrypt
    ops,     \* the OnePassSignature record built or parsed
    pv,      \* the packet version handed to OnePassSignature::from_slice
    out,     \* the bytes OnePassSignature's to_writer wrote
    result   \* the value, error or abort of the last operation

vars == <<pc, op, params, origin, buf, cut, alg, pub, enc, ops, pv, out, result>>

(***************************************************************************)
(* Bounds of the model.                                                    *)
(***************************************************************************)
\* longest single-field secret (DSA, ECDSA, ECDH, Elgamal, EdDSA), in bytes
MaxFieldLen == 3
\* longest arbitrary (untrusted) parser input, in bytes
MaxInputLen == 5

\* byte values the short fields and the untrusted inputs are made of
FieldBytes == {0, 1, 200}
\* the values an RSA field (d, p, q, u) takes
RsaFields == {<<>>, <<0>>, <<7>>, <<1, 2>>}
InputBytes == {0, 1, 8}

(***************************************************************************)
(* Bytes and integers.                                                     *)
(***************************************************************************)
U8 == 256
U16 == 65536

SeqsUpTo(S, n) == UNION {[1..k -> S] : k \in 0..n}

Fill(n, b) == [i \in 1..n |-> b]

\* the sum of s[lo..hi], by halves
RECURSIVE SumRange(_, _, _)
SumRange(s, lo, hi) ==
    IF lo > hi THEN 0
    ELSE IF lo = hi THEN s[lo]
    ELSE LET mid == (lo + hi) \div 2
         IN  SumRange(s, lo, mid) + SumRange(s, mid + 1, hi)

Sum(s) == SumRange(s, 1, Len(s))

\* u16 written big-endian (byteorder::WriteBytesExt::write_u16::<BigEndian>)
BE16(n) == <<(n \div U8) % U8, n % U8>>

\* be_u16 of the first two bytes of s
ReadBE16(s) == s[1] * U8 + s[2]

Drop(s, n) == SubSeq(s, n + 1, Len(s))
Take(s, n) == SubSeq(s, 1, n)

RECURSIVE BitLen(_)
BitLen(b) == IF b = 0 THEN 0 ELSE 1 + BitLen(b \div 2)

RECURSIVE StripLeadingZeros(_)
StripLeadingZeros(s) ==
    IF s # <<>> /\ Head(s) = 0 THEN StripLeadingZeros(Tail(s)) ELSE s

\* number of significant bits of the big-endian unsigned integer s
BitSize(s) ==
    LET v == StripLeadingZeros(s)
    IN  IF v = <<>> THEN 0 ELSE (Len(v) - 1) * 8 + BitLen(Head(v))

\* BigUint::from_bytes_be
RECURSIVE FromBytesBE(_)
FromBytesBE(s) ==
    IF s = <<>> THEN 0 ELSE FromBytesBE(Take(s, Len(s) - 1)) * U8 + s[Len(s)]

(***************************************************************************)
(* Results: a value, one tagged error, or an abort (panic).                *)
(***************************************************************************)
NoVal == [tag |-> "none"]
Ok(v) == [kind |-> "Ok", err |-> "", val |-> v]
Err(e) == [kind |-> "Err", err |-> e, val |-> NoVal]
Panic(m) == [kind |-> "Panic", err |-> m, val |-> NoVal]
NoResult == [kind |-> "None", err |-> "", val |-> NoVal]
\* a Vec<u8> value and the unit value ()
Bytes(b) == [tag |-> "bytes", bytes |-> b]
Unit == [tag |-> "unit"]

(***************************************************************************)
(* io::Write sinks: a Vec<u8>, a SimpleChecksum and a TeeWriter over two   *)
(* sinks.  write_all returns the sink after the write.                     *)
(***************************************************************************)
VecWriter(bytes) == [kind |-> "vec", bytes |-> bytes]
SimpleChecksumDefault == [kind |-> "sum", sum |-> 0]
TeeWriterNew(a, b) == [kind |-> "tee", a |-> a, b |-> b]

\* SimpleChecksum's write: a 16-bit sum of the bytes
SimpleChecksumUpdate(sum, bytes) == (sum + Sum(bytes)) % U16

RECURSIVE WriteAll(_, _)
WriteAll(w, bytes) ==
    CASE w.kind = "vec" -> [w EXCEPT !.bytes = @ \o bytes]
      [] w.kind = "sum" -> [w EXCEPT !.sum = SimpleChecksumUpdate(@, bytes)]
      [] w.kind = "tee" -> [w EXCEPT !.a = WriteAll(@, bytes),
                                     !.b = WriteAll(@, bytes)]

\* SimpleChecksum::finalize / to_writer: the sum, 2 bytes big-endian
SimpleChecksumFinalize(h) == BE16(h.sum)

(***************************************************************************)
(* The MPI codec (util::mpi, util::write_mpi).                             *)
(***************************************************************************)
\* write_mpi: 2-byte bit length, then the minimal big-endian bytes
write_mpi(val, w) ==
    LET v == StripLeadingZeros(val)
    IN  WriteAll(WriteAll(w, BE16(BitSize(v) % U16)), v)

\* mpi: [kind, err, rest, val]; running out of input is Incomplete
mpi(input) ==
    IF Len(input) < 2
    THEN [kind |-> "Err", err |-> "Incomplete", rest |-> input, val |-> <<>>]
    ELSE LET bits == ReadBE16(input)
             n == (bits + 7) \div 8
             number == Drop(input, 2)
         IN  IF Len(number) < n
             THEN [kind |-> "Err", err |-> "Incomplete", rest |-> input, val |-> <<>>]
             ELSE [kind |-> "Ok", err |-> "", rest |-> Drop(number, n),
                   val |-> Take(number, n)]

(***************************************************************************)
(* PlainSecretParams / PlainSecretParamsRef.                               *)
(***************************************************************************)
RSAParams(d, p, q, u) == [tag |-> "RSA", d |-> d, p |-> p, q |-> q, u |-> u]
OneParam(tag, x) == [tag |-> tag, x |-> x]

SingleTags == {"DSA", "ECDSA", "ECDH", "Elgamal", "EdDSA"}

\* PlainSecretParamsRef::string_to_key_id
string_to_key_id(self) == 0

\* to_writer_raw writing the RSA primes in the order q, p
to_writer_raw_qp(self, w) ==
    CASE self.tag = "RSA" ->
            write_mpi(self.u, write_mpi(self.p, write_mpi(self.q, write_mpi(self.d, w))))
      [] OTHER -> write_mpi(self.x, w)

\* PlainSecretParamsRef::to_writer_raw
to_writer_raw(self, w) ==
    CASE self.tag = "RSA" ->
            write_mpi(self.u, write_mpi(self.q, write_mpi(self.p, write_mpi(self.d, w))))
      [] self.tag = "DSA" -> write_mpi(self.x, w)
      [] self.tag = "ECDSA" -> write_mpi(self.x, w)
      [] self.tag = "ECDH" -> write_mpi(self.x, w)
      [] self.tag = "Elgamal" -> write_mpi(self.x, w)
      [] self.tag = "EdDSA" -> write_mpi(self.x, w)

\* the bytes to_writer_raw puts into an empty Vec
RawBytes(self) == to_writer_raw(self, VecWriter(<<>>)).bytes

\* PlainSecretParamsRef::checksum_simple
checksum_simple(self) ==
    SimpleChecksumFinalize(to_writer_raw(self, SimpleChecksumDefault))

\* to_writer without the tee: the raw bytes bypass the hasher
to_writer_no_tee(self, writer) ==
    LET w1 == WriteAll(writer, <<string_to_key_id(self)>>)
        hasher == SimpleChecksumDefault
        w2 == to_writer_raw(self, w1)
    IN  WriteAll(w2, SimpleChecksumFinalize(hasher))

\* impl Serialize for PlainSecretParamsRef: the writer after to_writer
to_writer(self, writer) ==
    LET w1 == WriteAll(writer, <<string_to_key_id(self)>>)
        tee == to_writer_raw(self, TeeWriterNew(SimpleChecksumDefault, w1))
        hasher == tee.a
        w2 == tee.b
    IN  WriteAll(w2, SimpleChecksumFinalize(hasher))

(***************************************************************************)
(* PublicKeyAlgorithm and the secret-parameter parser.                     *)
(***************************************************************************)
\* PublicKeyAlgorithm: name -> wire value
PublicKeyAlgorithmCode ==
    [RSA |-> 1, RSAEncrypt |-> 2, RSASign |-> 3, ElgamalSign |-> 16, DSA |-> 17,
     ECDH |-> 18, ECDSA |-> 19, Elgamal |-> 20, DiffieHellman |-> 21, EdDSA |-> 22,
     Private100 |-> 100, Private101 |-> 101, Private102 |-> 102, Private103 |-> 103,
     Private104 |-> 104, Private105 |-> 105, Private106 |-> 106, Private107 |-> 107,
     Private108 |-> 108, Private109 |-> 109, Private110 |-> 110]

PublicKeyAlgorithm == DOMAIN PublicKeyAlgorithmCode

\* rsa_secret_params: do_parse!(d: mpi >> p: mpi >> q: mpi >> u: mpi)
rsa_secret_params(input) ==
    LET rd == mpi(input)
        rp == mpi(rd.rest)
        rq == mpi(rp.rest)
        ru == mpi(rq.rest)
    IN  IF rd.kind # "Ok" THEN Err(rd.err)
        ELSE IF rp.kind # "Ok" THEN Err(rp.err)
        ELSE IF rq.kind # "Ok" THEN Err(rq.err)
        ELSE IF ru.kind # "Ok" THEN Err(ru.err)
        ELSE Ok(RSAParams(rd.val, rp.val, rq.val, ru.val))

\* do_parse!(x: mpi >> (PlainSecretParamsRef::<tag>(x)))
one_mpi_params(tag, input) ==
    LET rx == mpi(input)
    IN  IF rx.kind # "Ok" THEN Err(rx.err) ELSE Ok(OneParam(tag, rx.val))

\* parse_secret_params with the Elgamal arm building the ECDH variant
parse_secret_params_elgamal_as_ecdh(input, a) ==
    CASE a \in {"RSA", "RSAEncrypt", "RSASign"} -> rsa_secret_params(input)
      [] a = "DSA" -> one_mpi_params("DSA", input)
      [] a = "Elgamal" -> one_mpi_params("ECDH", input)
      [] a = "ECDH" -> one_mpi_params("ECDH", input)
      [] a = "ECDSA" -> one_mpi_params("ECDSA", input)
      [] a = "EdDSA" -> one_mpi_params("EdDSA", input)
      [] OTHER -> Err("Switch")

\* parse_secret_params: switch!(value!(alg), ...); no arm is nom's Switch error
parse_secret_params(input, a) ==
    CASE a \in {"RSA", "RSAEncrypt", "RSASign"} -> rsa_secret_params(input)
      [] a = "DSA" -> one_mpi_params("DSA", input)
      [] a = "Elgamal" -> one_mpi_params("Elgamal", input)
      [] a = "ECDH" -> one_mpi_params("ECDH", input)
      [] a = "ECDSA" -> one_mpi_params("ECDSA", input)
      [] a = "EdDSA" -> one_mpi_params("EdDSA", input)
      [] OTHER -> Err("Switch")

\* from_slice over a complete (non-streaming) parser: Incomplete becomes an error
from_slice_complete(data, a) ==
    LET r == parse_secret_params(data, a)
    IN  IF r.kind = "Err" /\ r.err = "Incomplete" THEN Err("Error") ELSE r

\* PlainSecretParamsRef::from_slice
from_slice(data, a) == parse_secret_params(data, a)

(***************************************************************************)
(* PublicParams, ECCCurve and the materializer as_repr.                    *)
(***************************************************************************)
PublicRSA(n, e) == [tag |-> "RSA", n |-> n, e |-> e]
PublicDSA == [tag |-> "DSA"]
PublicElgamal == [tag |-> "Elgamal"]
PublicECDSA(curve) == [tag |-> "ECDSA", curve |-> curve]
PublicECDH(curve, hash, alg_sym) ==
    [tag |-> "ECDH", curve |-> curve, hash |-> hash, alg_sym |-> alg_sym]
PublicEdDSA(curve) == [tag |-> "EdDSA", curve |-> curve]

ECCCurve == {"Curve25519", "Ed25519", "P256", "P384"}

\* ECCCurve::oid
oid(curve) ==
    CASE curve = "Curve25519" -> <<43, 6, 1, 4, 1, 151, 85, 1, 5, 1>>
      [] curve = "Ed25519" -> <<43, 6, 1, 4, 1, 218, 71, 15, 1>>
      [] curve = "P256" -> <<42, 134, 72, 206, 61, 3, 1, 7>>
      [] curve = "P384" -> <<43, 129, 4, 0, 34>>

\* the scalar length ensure_eq! demands of an ECDH / EdDSA secret
ScalarLen == 32

\* RSAPrivateKey::from_components
from_components(n, e, d, primes) ==
    [tag |-> "RSA", n |-> n, e |-> e, d |-> d, primes |-> primes]

\* RSAPrivateKey::validate: the primes are > 1, their product is n, and
\* d * e = 1 modulo each prime - 1
validate(key) ==
    /\ \A i \in 1..Len(key.primes) : key.primes[i] > 1
    /\ key.primes[1] * key.primes[2] = key.n
    /\ \A i \in 1..Len(key.primes) : (key.d * key.e - 1) % (key.primes[i] - 1) = 0

\* as_repr, RSA arm
as_repr_rsa(self, public_params) ==
    IF public_params.tag = "RSA"
    THEN LET secret_key == from_components(
                 FromBytesBE(public_params.n), FromBytesBE(public_params.e),
                 FromBytesBE(self.d),
                 <<FromBytesBE(self.p), FromBytesBE(self.q)>>)
         IN  IF validate(secret_key) THEN Ok(secret_key) ELSE Err("KeyValidation")
    ELSE Panic("inconsistent key state")

\* the ECDH arm without ensure_eq!: copy_from_slice aborts on another length
as_repr_ecdh_unguarded(self, public_params) ==
    IF public_params.tag = "ECDH"
    THEN IF public_params.curve = "Curve25519"
         THEN IF Len(self.x) # ScalarLen
              THEN Panic("source slice length does not match destination")
              ELSE Ok([tag |-> "ECDH", oid |-> oid(public_params.curve),
                       hash |-> public_params.hash,
                       alg_sym |-> public_params.alg_sym, secret |-> self.x])
         ELSE Err("Unsupported")
    ELSE Panic("inconsistent key state")

\* the ECDH arm accepting every scalar of at most 32 bytes, zero-padded
as_repr_ecdh_padding(self, public_params) ==
    IF public_params.tag = "ECDH"
    THEN IF public_params.curve = "Curve25519"
         THEN IF Len(self.x) > ScalarLen
              THEN Err("invalid secret")
              ELSE Ok([tag |-> "ECDH", oid |-> oid(public_params.curve),
                       hash |-> public_params.hash,
                       alg_sym |-> public_params.alg_sym,
                       secret |-> Fill(ScalarLen - Len(self.x), 0) \o self.x])
         ELSE Err("Unsupported")
    ELSE Panic("inconsistent key state")

\* as_repr, ECDH arm
as_repr_ecdh(self, public_params) ==
    IF public_params.tag = "ECDH"
    THEN IF public_params.curve = "Curve25519"
         THEN IF Len(self.x) # ScalarLen
              THEN Err("invalid secret")
              ELSE Ok([tag |-> "ECDH", oid |-> oid(public_params.curve),
                       hash |-> public_params.hash,
                       alg_sym |-> public_params.alg_sym, secret |-> self.x])
         ELSE Err("Unsupported")
    ELSE Panic("inconsistent key state")

\* as_repr, EdDSA arm
as_repr_eddsa(self, public_params) ==
    IF public_params.tag = "EdDSA"
    THEN IF public_params.curve = "Ed25519"
         THEN IF Len(self.x) # ScalarLen
              THEN Err("invalid secret")
              ELSE Ok([tag |-> "EdDSA", oid |-> oid(public_params.curve),
                       secret |-> self.x])
         ELSE Err("Unsupported")
    ELSE Panic("inconsistent key state")

\* as_repr matching the public parameters before the variant
as_repr_public_first(self, public_params) ==
    IF public_params.tag # self.tag THEN Panic("inconsistent key state")
    ELSE CASE self.tag = "RSA" -> as_repr_rsa(self, public_params)
           [] self.tag = "ECDH" -> as_repr_ecdh(self, public_params)
           [] self.tag = "EdDSA" -> as_repr_eddsa(self, public_params)
           [] OTHER -> Err("Unimplemented")

\* PlainSecretParamsRef::as_repr
as_repr(self, public_params) ==
    CASE self.tag = "RSA" -> as_repr_rsa(self, public_params)
      [] self.tag = "ECDH" -> as_repr_ecdh(self, public_params)
      [] self.tag = "EdDSA" -> as_repr_eddsa(self, public_params)
      [] self.tag = "DSA" -> Err("Unimplemented")
      [] self.tag = "Elgamal" -> Err("Unimplemented")
      [] self.tag = "ECDSA" -> Err("Unimplemented")

(***************************************************************************)
(* OnePassSignature (packet/one_pass_signature.rs).                        *)
(***************************************************************************)
\* SignatureType: name -> wire value
SignatureTypeCode ==
    [Binary |-> 0, Text |-> 1, Standalone |-> 2, CertGeneric |-> 16,
     CertPersona |-> 17, CertCasual |-> 18, CertPositive |-> 19,
     SubkeyBinding |-> 24, KeyBinding |-> 25, Key |-> 31, KeyRevocation |-> 32,
     SubkeyRevocation |-> 40, CertRevocation |-> 48, Timestamp |-> 64,
     ThirdParty |-> 80]

\* HashAlgorithm: name -> wire value
HashAlgorithmCode ==
    [None |-> 0, MD5 |-> 1, SHA1 |-> 2, RIPEMD160 |-> 3, SHA2_256 |-> 8,
     SHA2_384 |-> 9, SHA2_512 |-> 10, SHA2_224 |-> 11, SHA3_256 |-> 12,
     SHA3_512 |-> 14, Private10 |-> 110]

\* FromPrimitive::from_u8 of an enumeration: the name of the value, or "none"
from_u8(table, b) ==
    IF \E name \in DOMAIN table : table[name] = b
    THEN CHOOSE name \in DOMAIN table : table[name] = b
    ELSE "none"

\* `value as u8` of an enumeration
as_u8(table, name) == table[name]

\* Version::default
VersionDefault == "New"

KeyIdLen == 8

OnePassSignature(packet_version, version, typ, hash, pub_alg, key_id, last) ==
    [packet_version |-> packet_version, version |-> version, typ |-> typ,
     hash_algorithm |-> hash, pub_algorithm |-> pub_alg, key_id |-> key_id,
     last |-> last]

\* OnePassSignature::from_details
from_details(typ, hash_algorithm, pub_algorithm, key_id) ==
    OnePassSignature(VersionDefault, 3, typ, hash_algorithm, pub_algorithm, key_id, 1)

\* parse with `last` read before the key id
ops_parse_last_first(i, packet_version) ==
    IF Len(i) < 1 THEN Err("Incomplete")
    ELSE IF Len(i) < 2 THEN Err("Incomplete")
    ELSE IF from_u8(SignatureTypeCode, i[2]) = "none" THEN Err("MapOpt")
    ELSE IF Len(i) < 3 THEN Err("Incomplete")
    ELSE IF from_u8(HashAlgorithmCode, i[3]) = "none" THEN Err("MapOpt")
    ELSE IF Len(i) < 4 THEN Err("Incomplete")
    ELSE IF from_u8(PublicKeyAlgorithmCode, i[4]) = "none" THEN Err("MapOpt")
    ELSE IF Len(i) < 5 THEN Err("Incomplete")
    ELSE IF Len(i) < 5 + KeyIdLen THEN Err("Incomplete")
    ELSE Ok(OnePassSignature(packet_version, i[1],
                             from_u8(SignatureTypeCode, i[2]),
                             from_u8(HashAlgorithmCode, i[3]),
                             from_u8(PublicKeyAlgorithmCode, i[4]),
                             SubSeq(i, 6, 5 + KeyIdLen), i[5]))

\* one_pass_signature::parse (nom streaming: a missing byte is Incomplete,
\* an unknown enumeration byte is a MapOpt error)
ops_parse(i, packet_version) ==
    IF Len(i) < 1 THEN Err("Incomplete")
    ELSE IF Len(i) < 2 THEN Err("Incomplete")
    ELSE IF from_u8(SignatureTypeCode, i[2]) = "none" THEN Err("MapOpt")
    ELSE IF Len(i) < 3 THEN Err("Incomplete")
    ELSE IF from_u8(HashAlgorithmCode, i[3]) = "none" THEN Err("MapOpt")
    ELSE IF Len(i) < 4 THEN Err("Incomplete")
    ELSE IF from_u8(PublicKeyAlgorithmCode, i[4]) = "none" THEN Err("MapOpt")
    ELSE IF Len(i) < 4 + KeyIdLen THEN Err("Incomplete")
    ELSE IF Len(i) < 5 + KeyIdLen THEN Err("Incomplete")
    ELSE Ok(OnePassSignature(packet_version, i[1],
                             from_u8(SignatureTypeCode, i[2]),
                             from_u8(HashAlgorithmCode, i[3]),
                             from_u8(PublicKeyAlgorithmCode, i[4]),
                             SubSeq(i, 5, 4 + KeyIdLen), i[5 + KeyIdLen]))

\* OnePassSignature::from_slice
ops_from_slice(packet_version, input) == ops_parse(input, packet_version)

\* impl Serialize for OnePassSignature
ops_to_writer(self, writer) ==
    LET w1 == WriteAll(writer, <<self.version,
                                 as_u8(SignatureTypeCode, self.typ),
                                 as_u8(HashAlgorithmCode, self.hash_algorithm),
                                 as_u8(PublicKeyAlgorithmCode, self.pub_algorithm)>>)
        w2 == WriteAll(w1, self.key_id)
    IN  WriteAll(w2, <<self.last>>)

(***************************************************************************)
(* PlainSecretParams::encrypt and what it calls.                           *)
(***************************************************************************)
SymmetricKeyAlgorithm == {"Plaintext", "IDEA", "TripleDES", "AES128"}

\* SymmetricKeyAlgorithm::block_size, in bytes
block_size(a) ==
    CASE a = "Plaintext" -> 0
      [] a = "IDEA" -> 8
      [] a = "TripleDES" -> 8
      [] a = "AES128" -> 16

\* SymmetricKeyAlgorithm::key_size, in bytes
key_size(a) ==
    CASE a = "Plaintext" -> 0
      [] a = "IDEA" -> 16
      [] a = "TripleDES" -> 24
      [] a = "AES128" -> 16

KeyVersion == {"V2", "V3", "V4", "V5"}

\* the selector of the SHA-1 scheme
Sha1Id == 254

DigestLen == 20

\* checksum::calculate_sha1: a 20-byte digest of the bytes (a stand-in that
\* depends on the bytes' sum and number)
calculate_sha1(bytes) ==
    [i \in 1..DigestLen |-> (Sum(bytes) + 31 * i + 7 * Len(bytes)) % U8]

\* PlainSecretParamsRef::checksum_sha1
checksum_sha1(self) ==
    LET buffer == to_writer_raw(self, VecWriter(<<>>))
    IN  calculate_sha1(buffer.bytes)

\* StringToKey::derive_key: a key of key_size bytes, or an error for a
\* descriptor whose type is not available
derive_key(s2k, passphrase, size) ==
    IF s2k.typ = "Reserved" THEN Err("Unimplemented")
    ELSE Ok(Bytes(Fill(size, (passphrase + s2k.salt) % U8)))

\* the feedback chain of the block cipher: each output byte depends on the
\* key, on the input byte and on the previous output byte (the IV first)
RECURSIVE Cfb(_, _, _)
Cfb(k, prev, data) ==
    IF data = <<>> THEN <<>>
    ELSE LET c == (Head(data) + prev + k + 1) % U8
         IN  <<c>> \o Cfb(k, c, Tail(data))

\* SymmetricKeyAlgorithm::encrypt_with_iv_regular: the buffer after the call
\* and whether the call failed; a failing call has not touched the buffer
encrypt_with_iv_regular(a, key, iv, data) ==
    CASE a = "Plaintext" -> [kind |-> "Ok", err |-> "", data |-> data]
      [] a = "IDEA" -> [kind |-> "Err", err |-> "Unimplemented", data |-> data]
      [] OTHER -> [kind |-> "Ok", err |-> "",
                   data |-> Cfb(Sum(key) % U8, Sum(iv) % U8, data)]

\* EncryptedSecretParams::new
EncryptedSecretParamsNew(data, iv, a, s2k, id) ==
    [tag |-> "EncryptedSecretParams", data |-> data, iv |-> iv, alg |-> a,
     string_to_key |-> s2k, string_to_key_id |-> id]

(***************************************************************************)
(* The caller: inputs of the codec operations.                             *)
(***************************************************************************)
\* a field long enough for the 16-bit additive checksum to wrap
LongLen == 300
LongField == Fill(LongLen, 255)

CodecFields == SeqsUpTo(FieldBytes, MaxFieldLen)

CodecParams ==
    {RSAParams(d, p, q, u) : d \in RsaFields, p \in RsaFields,
                             q \in RsaFields, u \in RsaFields}
    \cup {OneParam(t, x) : t \in SingleTags, x \in CodecFields}

\* the variants the framed serializer and the checksums are called on
ChecksumParams ==
    CodecParams
    \cup {OneParam(t, LongField) : t \in SingleTags}
    \cup {RSAParams(LongField, <<7>>, <<>>, LongField)}

Inputs == SeqsUpTo(InputBytes, MaxInputLen)

Init ==
    /\ pc = "idle"
    /\ op = "none"
    /\ params = NoVal
    /\ origin = "none"
    /\ buf = <<>>
    /\ cut = 0
    /\ alg = "none"
    /\ pub = NoVal
    /\ enc = NoVal
    /\ ops = NoVal
    /\ pv = "none"
    /\ out = <<>>
    /\ result = NoResult

\* to_writer_raw into an empty Vec<u8>
Call_to_writer_raw(v) ==
    /\ pc = "idle"
    /\ op' = "to_writer_raw"
    /\ pc' = "written"
    /\ params' = v
    /\ origin' = "raw"
    /\ buf' = to_writer_raw(v, VecWriter(<<>>)).bytes
    /\ result' = Ok(Unit)
    /\ UNCHANGED <<cut, alg, pub, enc, ops, pv, out>>

\* Serialize::to_writer into an empty Vec<u8>
Call_to_writer(v) ==
    /\ pc = "idle"
    /\ op' = "to_writer"
    /\ pc' = "done"
    /\ params' = v
    /\ origin' = "framed"
    /\ buf' = to_writer(v, VecWriter(<<>>)).bytes
    /\ result' = Ok(Unit)
    /\ UNCHANGED <<cut, alg, pub, enc, ops, pv, out>>

Call_checksum_simple(v) ==
    /\ pc = "idle"
    /\ op' = "checksum_simple"
    /\ pc' = "done"
    /\ params' = v
    /\ result' = Ok(Bytes(checksum_simple(v)))
    /\ UNCHANGED <<origin, buf, cut, alg, pub, enc, ops, pv, out>>

\* a transport delivers the body without its last n bytes
Truncate(n) ==
    /\ pc = "written"
    /\ cut = 0
    /\ n \in 1..Len(buf)
    /\ buf' = Take(buf, Len(buf) - n)
    /\ cut' = n
    /\ UNCHANGED <<pc, op, params, origin, alg, pub, enc, ops, pv, out, result>>

\* an untrusted packet body arrives
Input(data) ==
    /\ pc = "idle"
    /\ pc' = "written"
    /\ origin' = "input"
    /\ buf' = data
    /\ UNCHANGED <<op, params, cut, alg, pub, enc, ops, pv, out, result>>

Call_from_slice(a) ==
    /\ pc = "written"
    /\ op' = "from_slice"
    /\ pc' = "done"
    /\ alg' = a
    /\ result' = from_slice(buf, a)
    /\ UNCHANGED <<params, origin, buf, cut, pub, enc, ops, pv, out>>

\* the caller drops the operation's values
Return ==
    /\ pc = "done"
    /\ pc' = "idle"
    /\ op' = "none"
    /\ params' = NoVal
    /\ origin' = "none"
    /\ buf' = <<>>
    /\ cut' = 0
    /\ alg' = "none"
    /\ pub' = NoVal
    /\ enc' = NoVal
    /\ ops' = NoVal
    /\ pv' = "none"
    /\ out' = <<>>
    /\ result' = NoResult

(***************************************************************************)
(* The caller: inputs of as_repr.                                          *)
(***************************************************************************)
ReprFields ==
    SeqsUpTo(FieldBytes, MaxFieldLen)
    \cup {Fill(k, 9) : k \in (ScalarLen - 1)..(ScalarLen + 1)}
    \cup {<<0>> \o Fill(ScalarLen - 1, 9)}

ReprParams ==
    {RSAParams(d, p, q, <<2>>) : d \in {<<7>>, <<5>>}, p \in {<<3>>, <<>>, <<1>>},
                                 q \in {<<11>>, <<0, 11>>}}
    \cup {OneParam(t, x) : t \in SingleTags, x \in ReprFields}

PublicParamsSet ==
    {PublicRSA(n, <<3>>) : n \in {<<33>>, <<35>>}}
    \cup {PublicDSA, PublicElgamal}
    \cup {PublicECDSA(c) : c \in {"P256", "P384"}}
    \cup {PublicECDH(c, h, a) : c \in ECCCurve, h \in {"SHA2_256", "SHA2_512"},
                                a \in {"AES128", "AES256"}}
    \cup {PublicEdDSA(c) : c \in ECCCurve}

Call_as_repr(v, public_params) ==
    /\ pc = "idle"
    /\ pc' = "done"
    /\ op' = "as_repr"
    /\ params' = v
    /\ pub' = public_params
    /\ result' = as_repr(v, public_params)
    /\ UNCHANGED <<origin, buf, cut, alg, enc, ops, pv, out>>

ReprNext ==
    pc = "idle" /\ \E v \in ReprParams, pp \in PublicParamsSet : Call_as_repr(v, pp)

(***************************************************************************)
(* The caller: inputs of the one-pass-signature codec.                     *)
(***************************************************************************)
KeyIds == {<<1, 2, 3, 4, 5, 6, 7, 8>>, Fill(KeyIdLen, 255)}

Codes(table) == {table[name] : name \in DOMAIN table}

\* 13-byte bodies: every signature-type and hash value, some public-key
\* values, and one byte outside each enumeration
OpsBodies ==
    {<<v, t, h, a>> \o <<1, 2, 3, 4, 5, 6, 7, 8>> \o <<l>> :
        v \in {3, 4}, t \in Codes(SignatureTypeCode) \cup {5},
        h \in Codes(HashAlgorithmCode) \cup {4},
        a \in {1, 3, 18, 22, 110, 0, 23}, l \in {0, 1}}

OpsSamples ==
    {<<3, 0, 2, 1>> \o k \o <<1>> : k \in KeyIds}
    \cup {<<3, 5, 2, 1>> \o k \o <<1>> : k \in KeyIds}
    \cup {<<4, 19, 4, 22>> \o k \o <<0>> : k \in KeyIds}
    \cup {<<4, 19, 8, 23>> \o k \o <<0>> : k \in KeyIds}

\* what reaches the parser: whole bodies, truncated ones, one with a trailer
OpsInputs ==
    OpsBodies
    \cup {Take(x, k) : x \in OpsSamples, k \in 0..12}
    \cup {x \o <<9>> : x \in OpsSamples}

PacketVersions == {"Old", "New"}

OpsInput(data) ==
    /\ pc = "idle"
    /\ pc' = "ops_bytes"
    /\ origin' = "input"
    /\ buf' = data
    /\ UNCHANGED <<op, params, cut, alg, pub, enc, ops, pv, out, result>>

Call_ops_from_details(typ, hash_algorithm, pub_algorithm, key_id) ==
    /\ pc = "idle"
    /\ pc' = "ops_record"
    /\ op' = "ops_from_details"
    /\ origin' = "details"
    /\ ops' = from_details(typ, hash_algorithm, pub_algorithm, key_id)
    /\ result' = Ok(from_details(typ, hash_algorithm, pub_algorithm, key_id))
    /\ UNCHANGED <<params, buf, cut, alg, pub, enc, pv, out>>

\* from_slice on the bytes that arrived (then the parsed record is kept) or
\* on the bytes to_writer wrote
Call_ops_from_slice(packet_version, input) ==
    /\ pc \in {"ops_bytes", "ops_written"}
    /\ op' = "ops_from_slice"
    /\ pv' = packet_version
    /\ result' = ops_from_slice(packet_version, input)
    /\ IF pc = "ops_bytes" /\ ops_from_slice(packet_version, input).kind = "Ok"
       THEN pc' = "ops_record" /\ ops' = ops_from_slice(packet_version, input).val
       ELSE pc' = "done" /\ ops' = ops
    /\ UNCHANGED <<params, origin, buf, cut, alg, pub, enc, out>>

Call_ops_to_writer ==
    /\ pc = "ops_record"
    /\ pc' = "ops_written"
    /\ op' = "ops_to_writer"
    /\ out' = ops_to_writer(ops, VecWriter(<<>>)).bytes
    /\ result' = Ok(Unit)
    /\ UNCHANGED <<params, origin, buf, cut, alg, pub, enc, ops, pv>>

OpsNext ==
    \/ pc = "idle" /\ \E data \in OpsInputs : OpsInput(data)
    \/ pc = "idle" /\ \E t \in DOMAIN SignatureTypeCode, h \in {"SHA1", "SHA2_256", "Private10"},
                         a \in PublicKeyAlgorithm, k \in KeyIds :
                            Call_ops_from_details(t, h, a, k)
    \/ pc = "ops_bytes" /\ \E v \in PacketVersions : Call_ops_from_slice(v, buf)
    \/ pc = "ops_written" /\ \E v \in PacketVersions : Call_ops_from_slice(v, out)
    \/ Call_ops_to_writer

(***************************************************************************)
(* The caller: inputs of encrypt, and encrypt statement by statement.      *)
(***************************************************************************)
EncParams ==
    {RSAParams(<<7>>, <<3>>, <<11>>, <<2>>), OneParam("DSA", <<>>)}
    \cup {OneParam("ECDH", x) : x \in CodecFields}

Passphrases == {97, 98}
StringToKeys == {[typ |-> "IteratedAndSalted", salt |-> 5],
                 [typ |-> "Reserved", salt |-> 0]}
Selectors == {0, Sha1Id, 255}
\* what the random generator fills the IV with
RngFills == {0, 17}

\* the call: the arguments become the locals of the running encrypt
Call_encrypt(v, passphrase, a, s2k, version, id) ==
    /\ pc = "idle"
    /\ pc' = "enc_derive_key"
    /\ op' = "encrypt"
    /\ params' = v
    /\ enc' = [passphrase |-> passphrase, alg |-> a, s2k |-> s2k,
               version |-> version, id |-> id,
               key |-> <<>>, iv |-> <<>>, data |-> <<>>, encrypted |-> FALSE]
    /\ UNCHANGED <<origin, buf, cut, alg, pub, ops, pv, out, result>>

\* let key = s2k.derive_key(passphrase, alg.key_size())?;
Enc_derive_key ==
    /\ pc = "enc_derive_key"
    /\ LET r == derive_key(enc.s2k, enc.passphrase, key_size(enc.alg))
       IN  IF r.kind = "Ok"
           THEN /\ enc' = [enc EXCEPT !.key = r.val.bytes]
                /\ pc' = "enc_fill_iv"
                /\ UNCHANGED result
           ELSE /\ result' = Err(r.err)
                /\ pc' = "done"
                /\ UNCHANGED enc
    /\ UNCHANGED <<op, params, origin, buf, cut, alg, pub, ops, pv, out>>

\* let mut iv = vec![0u8; alg.block_size()]; rng.fill(&mut iv[..]);
Enc_fill_iv(b) ==
    /\ pc = "enc_fill_iv"
    /\ enc' = [enc EXCEPT !.iv = Fill(block_size(enc.alg), b)]
    /\ pc' = "enc_match_version"
    /\ UNCHANGED <<op, params, origin, buf, cut, alg, pub, ops, pv, out, result>>

\* match version with V5 falling into the V4 arm
Enc_match_version_v5_as_v4 ==
    /\ pc = "enc_match_version"
    /\ CASE enc.version = "V2" ->
              result' = Err("Unsupported") /\ pc' = "done" /\ UNCHANGED enc
         [] enc.version = "V3" ->
              result' = Err("Unimplemented") /\ pc' = "done" /\ UNCHANGED enc
         [] OTHER ->
              /\ enc' = [enc EXCEPT
                            !.data = to_writer_raw(params, VecWriter(<<>>)).bytes]
              /\ pc' = "enc_match_id"
              /\ UNCHANGED result
    /\ UNCHANGED <<op, params, origin, buf, cut, alg, pub, ops, pv, out>>

\* match version { ... }; the V4 arm starts with the raw-mode bytes
Enc_match_version ==
    /\ pc = "enc_match_version"
    /\ CASE enc.version = "V2" ->
              result' = Err("Unsupported") /\ pc' = "done" /\ UNCHANGED enc
         [] enc.version = "V3" ->
              result' = Err("Unimplemented") /\ pc' = "done" /\ UNCHANGED enc
         [] enc.version = "V4" ->
              /\ enc' = [enc EXCEPT
                            !.data = to_writer_raw(params, VecWriter(<<>>)).bytes]
              /\ pc' = "enc_match_id"
              /\ UNCHANGED result
         [] enc.version = "V5" ->
              result' = Err("Unimplemented") /\ pc' = "done" /\ UNCHANGED enc
    /\ UNCHANGED <<op, params, origin, buf, cut, alg, pub, ops, pv, out>>

\* the selector checked only after the buffer has been encrypted
Enc_match_id_after_cipher ==
    /\ pc = "enc_match_id"
    /\ IF enc.id = Sha1Id
       THEN /\ enc' = [enc EXCEPT !.data = @ \o checksum_sha1(params)]
            /\ pc' = "enc_cipher"
            /\ UNCHANGED result
       ELSE LET r == encrypt_with_iv_regular(enc.alg, enc.key, enc.iv, enc.data)
            IN  /\ enc' = [enc EXCEPT !.data = r.data,
                                      !.encrypted = r.kind = "Ok"]
                /\ result' = Err("Unimplemented")
                /\ pc' = "done"
    /\ UNCHANGED <<op, params, origin, buf, cut, alg, pub, ops, pv, out>>

\* match id { 254 => data.extend_from_slice(&self.checksum_sha1()), _ => ... }
Enc_match_id ==
    /\ pc = "enc_match_id"
    /\ IF enc.id = Sha1Id
       THEN /\ enc' = [enc EXCEPT !.data = @ \o checksum_sha1(params)]
            /\ pc' = "enc_cipher"
            /\ UNCHANGED result
       ELSE /\ result' = Err("Unimplemented")
            /\ pc' = "done"
            /\ UNCHANGED enc
    /\ UNCHANGED <<op, params, origin, buf, cut, alg, pub, ops, pv, out>>

\* alg.encrypt_with_iv_regular(&key, &iv, &mut data)?;
Enc_cipher ==
    /\ pc = "enc_cipher"
    /\ LET r == encrypt_with_iv_regular(enc.alg, enc.key, enc.iv, enc.data)
       IN  IF r.kind = "Ok"
           THEN /\ enc' = [enc EXCEPT !.data = r.data, !.encrypted = TRUE]
                /\ pc' = "enc_return"
                /\ UNCHANGED result
           ELSE /\ enc' = [enc EXCEPT !.data = r.data]
                /\ result' = Err(r.err)
                /\ pc' = "done"
    /\ UNCHANGED <<op, params, origin, buf, cut, alg, pub, ops, pv, out>>

\* Ok(EncryptedSecretParams::new(enc_data, iv, alg, s2k, id))
Enc_return ==
    /\ pc = "enc_return"
    /\ result' = Ok(EncryptedSecretParamsNew(enc.data, enc.iv, enc.alg, enc.s2k, enc.id))
    /\ pc' = "done"
    /\ UNCHANGED <<op, params, origin, buf, cut, alg, pub, enc, ops, pv, out>>

EncryptNext ==
    \/ pc = "idle" /\ \E v \in EncParams, w \in Passphrases, a \in SymmetricKeyAlgorithm,
                         s \in StringToKeys, ver \in KeyVersion, id \in Selectors :
                            Call_encrypt(v, w, a, s, ver, id)
    \/ Enc_derive_key
    \/ \E b \in RngFills : Enc_fill_iv(b)
    \/ Enc_match_version
    \/ Enc_match_id
    \/ Enc_cipher
    \/ Enc_return

CodecNext ==
    \/ pc = "idle" /\ \E v \in CodecParams : Call_to_writer_raw(v)
    \/ pc = "idle" /\ \E v \in ChecksumParams : Call_to_writer(v)
    \/ pc = "idle" /\ \E v \in ChecksumParams : Call_checksum_simple(v)
    \/ pc = "idle" /\ \E data \in Inputs : Input(data)
    \/ pc = "written" /\ \E n \in 1..Len(buf) : Truncate(n)
    \/ pc = "written" /\ \E a \in PublicKeyAlgorithm : Call_from_slice(a)

Next ==
    \/ CodecNext
    \/ ReprNext
    \/ OpsNext
    \/ EncryptNext
    \/ Return

Spec == Init /\ [][Next]_vars

(***************************************************************************)
(* Properties of the secret-parameter codec.                               *)
(***************************************************************************)
\* the variant each algorithm tag prescribes ("none": the tag has no variant)
PrescribedTag(a) ==
    CASE a \in {"RSA", "RSAEncrypt", "RSASign"} -> "RSA"
      [] a \in {"DSA", "ECDSA", "ECDH", "Elgamal", "EdDSA"} -> a
      [] OTHER -> "none"

FieldCount(tag) == IF tag = "RSA" THEN 4 ELSE 1

\* the fields of a variant, in wire order
FieldSeq(v) == IF v.tag = "RSA" THEN <<v.d, v.p, v.q, v.u>> ELSE <<v.x>>

\* a minimal big-endian integer whose bit length fits the 2-byte prefix
CanonicalField(f) == (f = <<>> \/ f[1] # 0) /\ Len(f) * 8 < U16
Canonical(v) == \A i \in 1..Len(FieldSeq(v)) : CanonicalField(FieldSeq(v)[i])

\* the declared byte length of the MPI at the head of body
DeclaredLen(body) == (ReadBE16(body) + 7) \div 8

\* body is exactly k MPI fields: [bit-length:2][ceil(bit-length/8) bytes] each
RECURSIVE IsMpis(_, _)
IsMpis(body, k) ==
    IF k = 0 THEN body = <<>>
    ELSE /\ Len(body) >= 2
         /\ Len(body) - 2 >= DeclaredLen(body)
         /\ IsMpis(Drop(body, 2 + DeclaredLen(body)), k - 1)

\* the first k fields of a body that holds them
RECURSIVE ReadFields(_, _)
ReadFields(body, k) ==
    IF k = 0 THEN <<>>
    ELSE <<SubSeq(body, 3, 2 + DeclaredLen(body))>>
         \o ReadFields(Drop(body, 2 + DeclaredLen(body)), k - 1)

Parsed == pc = "done" /\ op = "from_slice"

\* C1 (as amended): writing a variant in raw mode and parsing the bytes with
\* the variant's own algorithm tag yields the same variant, field for field,
\* provided every field is a minimal big-endian integer (empty, or with a
\* nonzero first byte) of fewer than 8192 bytes.
C1_RawRoundTripCanonical ==
    (Parsed /\ origin = "raw" /\ cut = 0 /\ PrescribedTag(alg) = params.tag
        /\ Canonical(params))
    => result = Ok(params)

\* C1 as stated: the same for every choice of field byte strings.
C1_RawRoundTripAnyBytes ==
    (Parsed /\ origin = "raw" /\ cut = 0 /\ PrescribedTag(alg) = params.tag)
    => result = Ok(params)

C1_Witness ==
    /\ Parsed /\ origin = "raw" /\ cut = 0
    /\ alg = "RSASign" /\ params.tag = "RSA" /\ Canonical(params)
    /\ params.d = <<1, 2>> /\ params.p = <<7>> /\ params.q = <<>>
    /\ result = Ok(params)

\* C2: the framed serialization is one byte 0, the raw-mode bytes, and the
\* sum of the raw-mode bytes mod 65536 as 2 big-endian bytes, which are also
\* what checksum_simple returns for the variant.
C2_FramedLayout ==
    (pc = "done" /\ op = "to_writer")
    => LET raw == RawBytes(params)
       IN  /\ buf = <<0>> \o raw \o BE16(Sum(raw) % 65536)
           /\ Drop(buf, Len(buf) - 2) = checksum_simple(params)

C2_Witness ==
    /\ pc = "done" /\ op = "to_writer"
    /\ params.tag = "RSA"
    /\ Sum(RawBytes(params)) > 65536
    /\ Drop(buf, Len(buf) - 2) = BE16(Sum(RawBytes(params)) - 2 * 65536)

\* C3: a well-formed raw-mode body with its last N >= 1 bytes removed parses,
\* under every tag it is well-formed for, to the incomplete-input error.
C3_TruncationIncomplete ==
    (Parsed /\ origin = "raw" /\ cut > 0 /\ PrescribedTag(alg) # "none"
        /\ IsMpis(RawBytes(params), FieldCount(PrescribedTag(alg))))
    => result = Err("Incomplete")

\* the cut removes the whole last RSA field and reaches into an earlier one
C3_Witness ==
    /\ Parsed /\ origin = "raw" /\ params.tag = "RSA" /\ alg = "RSA"
    /\ params.u = <<7>> /\ params.q = <<1, 2>>
    /\ cut = 5
    /\ result = Err("Incomplete")

\* C10: the parser returns, for every tag and body, an error or the variant
\* the tag prescribes, built from the body's leading MPI fields in wire
\* order (four for the RSA tags, one otherwise); a tag without a variant
\* always gives an error.
C10_DispatchTotal ==
    Parsed =>
        /\ result.kind \in {"Ok", "Err"}
        /\ PrescribedTag(alg) = "none" => result.kind = "Err"
        /\ result.kind = "Ok" =>
              /\ result.val.tag = PrescribedTag(alg)
              /\ FieldSeq(result.val) = ReadFields(buf, FieldCount(PrescribedTag(alg)))

C10_Witness ==
    /\ Parsed /\ origin = "raw" /\ alg = "Elgamal" /\ params.tag = "RSA"
    /\ params.d = <<1, 2>>
    /\ result = Ok(OneParam("Elgamal", <<1, 2>>))

(***************************************************************************)
(* Properties of the materializer.                                         *)
(***************************************************************************)
Materialized == pc = "done" /\ op = "as_repr"

\* C6: with ECDH public parameters on Curve25519 (EdDSA on Ed25519) as_repr
\* of an ECDH (EdDSA) variant succeeds exactly when the scalar is 32 bytes
\* long and fails with invalid-secret otherwise; the key holds the scalar
\* unchanged, the curve's OID and, for ECDH, the public hash and symmetric
\* algorithm; every other curve gives unsupported, whatever the length.
C6_ScalarLengthGuard ==
    /\ (Materialized /\ params.tag = "ECDH" /\ pub.tag = "ECDH") =>
          IF pub.curve = "Curve25519"
          THEN IF Len(params.x) = 32
               THEN result = Ok([tag |-> "ECDH",
                                 oid |-> <<43, 6, 1, 4, 1, 151, 85, 1, 5, 1>>,
                                 hash |-> pub.hash, alg_sym |-> pub.alg_sym,
                                 secret |-> params.x])
               ELSE result = Err("invalid secret")
          ELSE result = Err("Unsupported")
    /\ (Materialized /\ params.tag = "EdDSA" /\ pub.tag = "EdDSA") =>
          IF pub.curve = "Ed25519"
          THEN IF Len(params.x) = 32
               THEN result = Ok([tag |-> "EdDSA",
                                 oid |-> <<43, 6, 1, 4, 1, 218, 71, 15, 1>>,
                                 secret |-> params.x])
               ELSE result = Err("invalid secret")
          ELSE result = Err("Unsupported")

\* a 31-byte scalar is refused where the 32-byte one is accepted
C6_Witness ==
    /\ Materialized /\ params.tag = "ECDH" /\ pub.tag = "ECDH"
    /\ pub.curve = "Curve25519"
    /\ Len(params.x) = 31
    /\ result = Err("invalid secret")

\* C7: as_repr of a DSA, Elgamal or ECDSA variant returns the not-implemented
\* error for every field value and every public-parameters value.
C7_NotImplemented ==
    (Materialized /\ params.tag \in {"DSA", "Elgamal", "ECDSA"})
    => result = Err("Unimplemented")

\* the public parameters do not match the variant, and still no abort
C7_Witness ==
    /\ Materialized /\ params.tag = "DSA" /\ pub.tag = "EdDSA"
    /\ result = Err("Unimplemented")

(***************************************************************************)
(* Properties of the one-pass-signature codec.                             *)
(***************************************************************************)
KnownBody(b) ==
    /\ Len(b) = 13
    /\ b[2] \in Codes(SignatureTypeCode)
    /\ b[3] \in Codes(HashAlgorithmCode)
    /\ b[4] \in Codes(PublicKeyAlgorithmCode)

\* C9: a 13-byte body with known enumeration bytes parses to version =
\* byte 0, key id = bytes 4..11, last = byte 12, and the parsed record
\* serializes to the same 13 bytes; parsing the serialization of any record
\* with the record's packet version gives the record back.
C9_OnePassRoundTrip ==
    /\ (op = "ops_from_slice" /\ origin = "input" /\ out = <<>> /\ KnownBody(buf)) =>
          /\ pc = "ops_record"
          /\ result = Ok(ops)
          /\ ops.packet_version = pv
          /\ ops.version = buf[1]
          /\ SignatureTypeCode[ops.typ] = buf[2]
          /\ HashAlgorithmCode[ops.hash_algorithm] = buf[3]
          /\ PublicKeyAlgorithmCode[ops.pub_algorithm] = buf[4]
          /\ ops.key_id = SubSeq(buf, 5, 12)
          /\ ops.last = buf[13]
    /\ (op = "ops_to_writer" /\ origin = "input" /\ KnownBody(buf)) => out = buf
    /\ op = "ops_to_writer" => Len(out) = 13
    /\ (op = "ops_from_slice" /\ out # <<>> /\ pv = ops.packet_version) =>
          result = Ok(ops)

\* a record built by from_details comes back from its own serialization
C9_Witness ==
    /\ op = "ops_from_slice" /\ pc = "done" /\ origin = "details"
    /\ pv = "New" /\ ops.typ = "CertPositive" /\ ops.pub_algorithm = "EdDSA"
    /\ out = <<3, 19, 2, 22, 255, 255, 255, 255, 255, 255, 255, 255, 1>>
    /\ result = Ok(ops)

(***************************************************************************)
(* Properties of encrypt.                                                  *)
(***************************************************************************)
EncryptReturned == pc = "done" /\ op = "encrypt"

\* the plaintext encrypt hands to the cipher: raw-mode bytes, then their digest
EncPlaintext(v) == RawBytes(v) \o calculate_sha1(RawBytes(v))

C8_AbortOnlyOnMismatch ==
    /\ result.kind = "Panic" =>
          /\ op = "as_repr"
          /\ params.tag \in {"RSA", "ECDH", "EdDSA"}
          /\ pub.tag # params.tag
          /\ result.err = "inconsistent key state"
    /\ (Materialized /\ pub.tag = params.tag) => result.kind \in {"Ok", "Err"}
    /\ (Parsed \/ op = "ops_from_slice") => result.kind \in {"Ok", "Err"}

\* the documented abort: an RSA variant with ECDH public parameters
C8_Witness ==
    /\ Materialized /\ params.tag = "RSA" /\ pub.tag = "ECDH"
    /\ result = Panic("inconsistent key state")

====
